---- MODULE Spec2Model ----
(***************************************************************************)
(* Mikoshi terminal core.                                                  *)
(*                                                                         *)
(*   TerminalState (src/src/terminal_state.rs): scrollback, input line,    *)
(*   command history, viewport and selection, one action per method.       *)
(*   Terminal (src/src/terminal.rs): the shell session, its writer,        *)
(*   reader and aggregator threads, one action per step between two        *)
(*   synchronisation points.                                               *)
(*                                                                         *)
(* Strings are sequences of one-character strings; a usize index i of the  *)
(* source is the TLA+ index i + 1.  Option<T> is a sequence of length 0    *)
(* (None) or 1 (Some(x)).                                                  *)
(***************************************************************************)
EXTENDS Integers, Sequences, FiniteSets, TLC

----------------------------------------------------------------------------
(* Bounds of the model *)

\* window height at start-up and largest height after a resize, in pixels
\* (main.rs starts with height 800 and a line height of about 19)
WindowHeight == 4
MaxHeight == 5
\* font line height in pixels (font.height() in main.rs)
LineHeight == 2
\* longest input line typed before a commit
MaxInputLen == 1
\* largest line count handed to scroll_up / scroll_down
MaxScrollStep == 2
\* largest row and column a mouse event is mapped to
MaxClickLine == 1
MaxClickCol == 2
\* number of write_input calls of a run
MaxWrites == 2
\* number of chunks the reader forwards in a run
MaxChunks == 2
\* longest input line of the command-history specification
NavInputLen == 2
\* number of chunks on the input channel when the writer thread starts
MaxQueued == 3

(* Program constants.  The source sets MAX_HISTORY_LINES = 1000 and        *)
(* MAX_COMMAND_HISTORY = 100; the model keeps the names and the code that  *)
(* uses them and scales the values down so that eviction is reached.       *)
MAX_HISTORY_LINES == 3
MAX_COMMAND_HISTORY == 2

----------------------------------------------------------------------------
(* Characters and strings *)

LF == "LF"
CR == "CR"
FF == "FF"
ESC == "ESC"

\* settings.prompt, "$ "
Prompt == <<"$", " ">>

\* settings.colors.text and settings.colors.input
TEXT_COLOR == "text"
INPUT_COLOR == "input"

\* "\x1b[H\x1b[2J"
CLEAR_SEQ == <<ESC, "[", "H", ESC, "[", "2", "J">>

None == <<>>
Some(x) == <<x>>

Min(a, b) == IF a <= b THEN a ELSE b
Max(a, b) == IF a >= b THEN a ELSE b

\* usize::saturating_sub
saturating_sub(a, b) == IF a >= b THEN a - b ELSE 0

\* str::contains
contains(s, pat) ==
    \E i \in 1..(Len(s) - Len(pat) + 1) : SubSeq(s, i, i + Len(pat) - 1) = pat

\* str::split_inclusive('\n')
RECURSIVE split_inclusive(_)
split_inclusive(s) ==
    IF s = <<>> THEN <<>>
    ELSE LET idx == {i \in 1..Len(s) : s[i] = LF} IN
         IF idx = {} THEN <<s>>
         ELSE LET k == CHOOSE i \in idx : \A j \in idx : i <= j IN
              <<SubSeq(s, 1, k)>> \o split_inclusive(SubSeq(s, k + 1, Len(s)))

\* one item of str::lines: the line ending "\n" or "\r\n" is removed
strip_line_ending(p) ==
    IF p # <<>> /\ p[Len(p)] = LF
    THEN LET q == SubSeq(p, 1, Len(p) - 1) IN
         IF q # <<>> /\ q[Len(q)] = CR THEN SubSeq(q, 1, Len(q) - 1) ELSE q
    ELSE p

\* str::lines
lines(s) ==
    LET ps == split_inclusive(s) IN
    [i \in 1..Len(ps) |-> strip_line_ending(ps[i])]

----------------------------------------------------------------------------
(* State *)

VARIABLES
    history,          \* TerminalState.history: scrollback lines, oldest first
    current_input,    \* TerminalState.current_input
    cursor_position,  \* TerminalState.cursor_position
    offset,           \* TerminalState.viewport.offset
    visible_lines,    \* TerminalState.viewport.visible_lines
    selection,        \* TerminalState.selection: Option<Selection>
    command_history,  \* TerminalState.command_history, oldest first
    command_index,    \* TerminalState.command_index: Option<usize>
    panicked,         \* the foreground thread panicked (index out of bounds)
    lastOp            \* history variable: the last TerminalState call

displayVars == <<history, current_input, cursor_position, offset, visible_lines,
                 selection, command_history, command_index, panicked, lastOp>>

VARIABLES
    should_exit,      \* Terminal.should_exit: the shared exit flag
    tx_open,          \* Terminal.tx, the session's input sender, is not dropped
    rx_input,         \* chunks queued on the input channel, oldest first
    writer_pc,        \* writer thread (handle_input): "recv", "check", "dispatch", "done"
    writer_input,     \* the chunk the writer thread holds
    child_alive,      \* the shell process runs
    child_stdin,      \* every byte written to the child's input, in order
    sigints,          \* number of SIGINT signals delivered to the child
    reader_pc,        \* reader thread (handle_output): "check", "read", "done"
    rx_output,        \* chunks queued on the output channel, oldest first
    agg_pc,           \* aggregator thread (start): "check", "recv", "append", "done"
    agg_data,         \* the chunk the aggregator thread holds
    buffer,           \* Terminal.buffer: the shared output accumulator
    forwarded,        \* history variable: the chunks the reader sent, in order
    drains,           \* history variable: the non-empty results of get_output, in order
    eot_submitted,    \* history variable: write_input was called with [4]
    writes,           \* history variable: number of write_input calls
    write_result      \* the Result of the last write_input call: "none", "Ok", "Err"

sessionVars == <<should_exit, tx_open, rx_input, writer_pc, writer_input, child_alive,
                 child_stdin, sigints, reader_pc, rx_output, agg_pc, agg_data, buffer,
                 forwarded, drains, eot_submitted, writes, write_result>>

vars == <<displayVars, sessionVars>>

\* lastOp: name of the call.  For scroll calls n is the argument and orig the
\* offset before a scroll_up; rt marks a scroll_down(n) made right after
\* scroll_up(n), and then orig is still the offset before that scroll_up.
\* For add_output and commit_input orig is the scrollback length before the
\* call and n the number of lines the call appends.  For add_input and
\* handle_backspace rt tells that the call was made while browsing the
\* command history.
Op(name) == [name |-> name, n |-> 0, orig |-> 0, rt |-> FALSE]

----------------------------------------------------------------------------
(* Selection *)

Position(line, column) == [line |-> line, column |-> column]

\* Selection::new
Selection_new(line, column) ==
    [start |-> Position(line, column), end |-> Position(line, column)]

\* normalize that returns the endpoints in drag order
normalize_NoSwap(sel) ==
    <<Position(sel.start.line, sel.start.column),
      Position(sel.end.line, sel.end.column)>>

\* Selection::normalize
normalize(sel) ==
    IF sel.start.line < sel.end.line
       \/ (sel.start.line = sel.end.line /\ sel.start.column <= sel.end.column)
    THEN <<Position(sel.start.line, sel.start.column),
           Position(sel.end.line, sel.end.column)>>
    ELSE <<Position(sel.end.line, sel.end.column),
           Position(sel.start.line, sel.start.column)>>

----------------------------------------------------------------------------
(* Viewport windowing *)

\* get_visible_range that does not keep a row for the input line
get_visible_range_FullRows(total_lines, vis, off) ==
    [start |-> saturating_sub(total_lines, vis + off),
     end   |-> saturating_sub(total_lines, off)]

\* TerminalState::get_visible_range
get_visible_range(total_lines, vis, off) ==
    LET visible == saturating_sub(vis, 1) IN
    [start |-> saturating_sub(total_lines, visible + off),
     end   |-> saturating_sub(total_lines, off)]

\* TerminalState::get_visible_content, as a function of the fields it reads
visible_content(h, vis, off, input) ==
    LET r == get_visible_range(Len(h), vis, off) IN
    [i \in 1..(r.end - r.start) |-> [text |-> h[r.start + i], color |-> TEXT_COLOR]]
    \o (IF off = 0
        THEN <<[text |-> Prompt \o input, color |-> INPUT_COLOR]>>
        ELSE <<>>)

get_visible_content == visible_content(history, visible_lines, offset, current_input)

\* max_scroll of scroll_up
max_scroll(total_lines, vis) ==
    saturating_sub(total_lines, saturating_sub(vis, 1))

\* scroll_up without the clamp to max_scroll
scroll_up_offset_NoClamp(off, n, total_lines, vis) == off + n

\* new viewport.offset of scroll_up
scroll_up_offset(off, n, total_lines, vis) ==
    Min(off + n, max_scroll(total_lines, vis))

\* scroll_down that moves one line too far
scroll_down_offset_OffByOne(off, n) == saturating_sub(off, n + 1)

\* new viewport.offset of scroll_down
scroll_down_offset(off, n) == saturating_sub(off, n)

----------------------------------------------------------------------------
(* Scrollback ingestion *)

\* the loop body without the pop_front at capacity
push_line_NoEvict(h, line) == Append(h, line)

\* one iteration of the loop of add_output
push_line(h, line) ==
    Append(IF Len(h) >= MAX_HISTORY_LINES THEN Tail(h) ELSE h, line)

\* the loop of add_output
RECURSIVE push_lines(_, _)
push_lines(h, ls) ==
    IF ls = <<>> THEN h ELSE push_lines(push_line(h, Head(ls)), Tail(ls))

\* the clear-screen test without the form feed
is_clear_screen_EscOnly(output) == contains(output, CLEAR_SEQ)

\* the clear-screen test of add_output
is_clear_screen(output) == contains(output, CLEAR_SEQ) \/ contains(output, <<FF>>)

\* number of lines add_output appends for a text
appended_lines(output) == IF is_clear_screen(output) THEN 0 ELSE Len(lines(output))

\* TerminalState::add_output on (history, viewport.offset, selection)
add_output_result(h, off, sel, output) ==
    IF is_clear_screen(output)
    THEN [history |-> <<>>, offset |-> 0, selection |-> None]
    ELSE LET h2 == push_lines(h, lines(output)) IN
         IF off = 0
         THEN [history |-> h2, offset |-> 0, selection |-> None]
         ELSE [history |-> h2, offset |-> off, selection |-> sel]

----------------------------------------------------------------------------
(* Selected text *)

\* the loop of get_text_from_selection, from visible line i on
RECURSIVE selection_loop(_, _, _, _, _)
selection_loop(content, i, start_pos, end_pos, result) ==
    IF i >= Len(content) THEN result
    ELSE IF i < start_pos.line \/ i > end_pos.line
    THEN selection_loop(content, i + 1, start_pos, end_pos, result)
    ELSE LET line == content[i + 1].text
             line_start == IF i = start_pos.line THEN start_pos.column ELSE 0
             line_end == IF i = end_pos.line
                         THEN Min(end_pos.column, Len(line))
                         ELSE Len(line)
             r1 == IF result # <<>> THEN Append(result, LF) ELSE result
             r2 == IF line_start < Len(line)
                   THEN r1 \o SubSeq(line, line_start + 1, line_end)
                   ELSE r1
         IN selection_loop(content, i + 1, start_pos, end_pos, r2)

\* TerminalState::get_text_from_selection
get_text_from_selection(sel) ==
    LET n == normalize(sel) IN
    selection_loop(get_visible_content, 0, n[1], n[2], <<>>)

\* TerminalState::get_selected_text
get_selected_text ==
    IF selection # None THEN get_text_from_selection(selection[1]) ELSE <<>>

----------------------------------------------------------------------------
(* TerminalState operations *)

\* TerminalState::new, called at start-up and on every window resize
new(height) ==
    /\ ~panicked
    /\ history' = <<>>
    /\ current_input' = <<>>
    /\ cursor_position' = 0
    /\ offset' = 0
    /\ visible_lines' = height \div LineHeight
    /\ selection' = None
    /\ command_history' = <<>>
    /\ command_index' = None
    /\ lastOp' = Op("new")
    /\ UNCHANGED panicked

\* start_selection that drops the selection on a click outside the content
start_selection_ClearsOutside(line, column) ==
    /\ ~panicked
    /\ LET content == get_visible_content IN
       IF line >= Len(content)
       THEN selection' = None
       ELSE selection' = Some(Selection_new(line, Min(column, Len(content[line + 1].text))))
    /\ lastOp' = Op("start_selection")
    /\ UNCHANGED <<history, current_input, cursor_position, offset, visible_lines,
                   command_history, command_index, panicked>>

start_selection(line, column) ==
    /\ ~panicked
    /\ LET content == get_visible_content IN
       IF line >= Len(content)
       THEN UNCHANGED selection
       ELSE selection' = Some(Selection_new(line, Min(column, Len(content[line + 1].text))))
    /\ lastOp' = Op("start_selection")
    /\ UNCHANGED <<history, current_input, cursor_position, offset, visible_lines,
                   command_history, command_index, panicked>>

update_selection(line, column) ==
    /\ ~panicked
    /\ LET content == get_visible_content IN
       IF selection = None
       THEN UNCHANGED <<selection, panicked>>
       ELSE LET bounded_line == Min(line, saturating_sub(Len(content), 1)) IN
            IF bounded_line >= Len(content)
            THEN /\ panicked' = TRUE
                 /\ UNCHANGED selection
            ELSE /\ selection' = Some([start |-> selection[1].start,
                                       end |-> Position(bounded_line,
                                                 Min(column, Len(content[bounded_line + 1].text)))])
                 /\ UNCHANGED panicked
    /\ lastOp' = Op("update_selection")
    /\ UNCHANGED <<history, current_input, cursor_position, offset, visible_lines,
                   command_history, command_index>>

\* handle_key_up that starts browsing before it looks at the history
handle_key_up_BrowseEmpty ==
    /\ ~panicked
    /\ IF command_history = <<>>
       THEN /\ command_index' = Some(0)
            /\ UNCHANGED <<current_input, cursor_position>>
       ELSE LET current_index == IF command_index = None
                                 THEN Len(command_history)
                                 ELSE command_index[1] IN
            IF current_index > 0
            THEN /\ command_index' = Some(current_index - 1)
                 /\ current_input' = command_history[current_index]
                 /\ cursor_position' = Len(command_history[current_index])
            ELSE /\ command_index' = Some(current_index)
                 /\ UNCHANGED <<current_input, cursor_position>>
    /\ lastOp' = Op("handle_key_up")
    /\ UNCHANGED <<history, offset, visible_lines, selection, command_history, panicked>>

\* TerminalState::handle_key_up
\* handle_key_up that loads the entry and leaves the cursor where it was
handle_key_up_KeepCursor ==
    /\ ~panicked
    /\ IF command_history = <<>>
       THEN UNCHANGED <<command_index, current_input, cursor_position>>
       ELSE LET current_index == IF command_index = None
                                 THEN Len(command_history)
                                 ELSE command_index[1] IN
            IF current_index > 0
            THEN /\ command_index' = Some(current_index - 1)
                 /\ current_input' = command_history[current_index]
                 /\ UNCHANGED cursor_position
            ELSE /\ command_index' = Some(current_index)
                 /\ UNCHANGED <<current_input, cursor_position>>
    /\ lastOp' = Op("handle_key_up")
    /\ UNCHANGED <<history, offset, visible_lines, selection, command_history, panicked>>

handle_key_up ==
    /\ ~panicked
    /\ IF command_history = <<>>
       THEN UNCHANGED <<command_index, current_input, cursor_position>>
       ELSE LET current_index == IF command_index = None
                                 THEN Len(command_history)
                                 ELSE command_index[1] IN
            IF current_index > 0
            THEN /\ command_index' = Some(current_index - 1)
                 /\ current_input' = command_history[current_index]
                 /\ cursor_position' = Len(command_history[current_index])
            ELSE /\ command_index' = Some(current_index)
                 /\ UNCHANGED <<current_input, cursor_position>>
    /\ lastOp' = Op("handle_key_up")
    /\ UNCHANGED <<history, offset, visible_lines, selection, command_history, panicked>>

\* handle_key_down that leaves the loaded entry in the input past the newest
handle_key_down_KeepInput ==
    /\ ~panicked
    /\ IF command_index = None
       THEN UNCHANGED <<command_index, current_input, cursor_position>>
       ELSE LET index == command_index[1] IN
            IF index < saturating_sub(Len(command_history), 1)
            THEN /\ command_index' = Some(index + 1)
                 /\ current_input' = command_history[index + 2]
                 /\ cursor_position' = Len(command_history[index + 2])
            ELSE /\ command_index' = None
                 /\ UNCHANGED <<current_input, cursor_position>>
    /\ lastOp' = Op("handle_key_down")
    /\ UNCHANGED <<history, offset, visible_lines, selection, command_history, panicked>>

\* TerminalState::handle_key_down
handle_key_down ==
    /\ ~panicked
    /\ IF command_index = None
       THEN UNCHANGED <<command_index, current_input, cursor_position>>
       ELSE LET index == command_index[1] IN
            IF index < saturating_sub(Len(command_history), 1)
            THEN /\ command_index' = Some(index + 1)
                 /\ current_input' = command_history[index + 2]
                 /\ cursor_position' = Len(command_history[index + 2])
            ELSE /\ command_index' = None
                 /\ current_input' = <<>>
                 /\ cursor_position' = 0
    /\ lastOp' = Op("handle_key_down")
    /\ UNCHANGED <<history, offset, visible_lines, selection, command_history, panicked>>

\* add_input without the reset of command_index
add_input_KeepIndex(input) ==
    /\ ~panicked
    /\ current_input' = current_input \o input
    /\ cursor_position' = cursor_position + Len(input)
    /\ lastOp' = [name |-> "add_input", n |-> 0, orig |-> 0, rt |-> command_index # None]
    /\ UNCHANGED <<history, offset, visible_lines, selection, command_history,
                   command_index, panicked>>

\* TerminalState::add_input
add_input(input) ==
    /\ ~panicked
    /\ command_index' = None
    /\ current_input' = current_input \o input
    /\ cursor_position' = cursor_position + Len(input)
    /\ lastOp' = [name |-> "add_input", n |-> 0, orig |-> 0, rt |-> command_index # None]
    /\ UNCHANGED <<history, offset, visible_lines, selection, command_history, panicked>>

handle_backspace ==
    /\ ~panicked
    /\ IF cursor_position > 0
       THEN LET c == cursor_position - 1 IN
            IF c >= Len(current_input)
            THEN /\ panicked' = TRUE
                 /\ cursor_position' = c
                 /\ UNCHANGED <<current_input, command_index>>
            ELSE /\ cursor_position' = c
                 /\ current_input' = SubSeq(current_input, 1, c)
                                     \o SubSeq(current_input, c + 2, Len(current_input))
                 /\ command_index' = None
                 /\ UNCHANGED panicked
       ELSE UNCHANGED <<cursor_position, current_input, command_index, panicked>>
    /\ lastOp' = [name |-> "handle_backspace", n |-> 0, orig |-> 0,
                   rt |-> command_index # None]
    /\ UNCHANGED <<history, offset, visible_lines, selection, command_history>>

\* the command_history update without the pop_front
push_command_NoEvict(ch, input) ==
    IF input # <<>> THEN Append(ch, input) ELSE ch

\* the command_history update of commit_input
push_command(ch, input) ==
    IF input # <<>>
    THEN LET pushed == Append(ch, input) IN
         IF Len(pushed) > MAX_COMMAND_HISTORY THEN Tail(pushed) ELSE pushed
    ELSE ch

\* commit_input that leaves the navigation state as it is
commit_input_KeepIndex ==
    /\ ~panicked
    /\ LET input == current_input
           r == add_output_result(history, offset, selection, Prompt \o input \o <<LF>>)
       IN /\ command_history' = push_command(command_history, input)
          /\ history' = r.history
          /\ offset' = r.offset
    /\ current_input' = <<>>
    /\ cursor_position' = 0
    /\ selection' = None
    /\ lastOp' = [name |-> "commit_input", n |-> appended_lines(Prompt \o current_input \o <<LF>>),
                   orig |-> Len(history), rt |-> FALSE]
    /\ UNCHANGED <<visible_lines, panicked, command_index>>

\* commit_input that scrolls to the bottom after the echo
commit_input_ToBottom ==
    /\ ~panicked
    /\ LET input == current_input
           r == add_output_result(history, offset, selection, Prompt \o input \o <<LF>>)
       IN /\ command_history' = push_command(command_history, input)
          /\ history' = r.history
          /\ offset' = 0
    /\ current_input' = <<>>
    /\ cursor_position' = 0
    /\ command_index' = None
    /\ selection' = None
    /\ lastOp' = [name |-> "commit_input", n |-> appended_lines(Prompt \o current_input \o <<LF>>),
                   orig |-> Len(history), rt |-> FALSE]
    /\ UNCHANGED <<visible_lines, panicked>>

commit_input ==
    /\ ~panicked
    /\ LET input == current_input
           r == add_output_result(history, offset, selection, Prompt \o input \o <<LF>>)
       IN /\ command_history' = push_command(command_history, input)
          /\ history' = r.history
          /\ offset' = r.offset
    /\ current_input' = <<>>
    /\ cursor_position' = 0
    /\ command_index' = None
    /\ selection' = None
    /\ lastOp' = [name |-> "commit_input", n |-> appended_lines(Prompt \o current_input \o <<LF>>),
                   orig |-> Len(history), rt |-> FALSE]
    /\ UNCHANGED <<visible_lines, panicked>>

clear ==
    /\ ~panicked
    /\ history' = <<>>
    /\ offset' = 0
    /\ selection' = None
    /\ lastOp' = Op("clear")
    /\ UNCHANGED <<current_input, cursor_position, visible_lines,
                   command_history, command_index, panicked>>

add_output(output) ==
    /\ ~panicked
    /\ LET r == add_output_result(history, offset, selection, output) IN
       /\ history' = r.history
       /\ offset' = r.offset
       /\ selection' = r.selection
    /\ lastOp' = [name |-> "add_output", n |-> appended_lines(output),
                   orig |-> Len(history), rt |-> FALSE]
    /\ UNCHANGED <<current_input, cursor_position, visible_lines,
                   command_history, command_index, panicked>>

\* scroll_up that keeps the selection
scroll_up_KeepsSelection(n) ==
    /\ ~panicked
    /\ offset' = scroll_up_offset(offset, n, Len(history), visible_lines)
    /\ lastOp' = [name |-> "scroll_up", n |-> n, orig |-> offset, rt |-> FALSE]
    /\ UNCHANGED <<history, current_input, cursor_position, visible_lines,
                   command_history, command_index, panicked, selection>>

scroll_up(n) ==
    /\ ~panicked
    /\ offset' = scroll_up_offset(offset, n, Len(history), visible_lines)
    /\ selection' = None
    /\ lastOp' = [name |-> "scroll_up", n |-> n, orig |-> offset, rt |-> FALSE]
    /\ UNCHANGED <<history, current_input, cursor_position, visible_lines,
                   command_history, command_index, panicked>>

scroll_down(n) ==
    /\ ~panicked
    /\ offset' = scroll_down_offset(offset, n)
    /\ selection' = None
    /\ lastOp' = IF lastOp.name = "scroll_up" /\ lastOp.n = n
                 THEN [name |-> "scroll_down", n |-> n, orig |-> lastOp.orig, rt |-> TRUE]
                 ELSE [name |-> "scroll_down", n |-> n, orig |-> 0, rt |-> FALSE]
    /\ UNCHANGED <<history, current_input, cursor_position, visible_lines,
                   command_history, command_index, panicked>>

----------------------------------------------------------------------------
(* Terminal: the shell session *)

\* u8::is_ascii_graphic
is_ascii_graphic(c) == c >= 33 /\ c <= 126

\* u8::is_ascii_whitespace: space, tab, line feed, form feed, carriage return
is_ascii_whitespace(c) == c \in {32, 9, 10, 12, 13}

\* the filter without the explicit backspace
filter_input_NoBackspace(input) ==
    SelectSeq(input, LAMBDA c : is_ascii_graphic(c) \/ is_ascii_whitespace(c))

\* the filter of write_input
filter_input(input) ==
    SelectSeq(input, LAMBDA c : is_ascii_graphic(c) \/ is_ascii_whitespace(c) \/ c = 8)

RECURSIVE concat(_)
concat(chunks) == IF chunks = <<>> THEN <<>> ELSE Head(chunks) \o concat(Tail(chunks))

\* Terminal::new, after the three threads are spawned
SessionInit ==
    /\ should_exit = FALSE
    /\ tx_open = TRUE
    /\ rx_input = <<>>
    /\ writer_pc = "recv"
    /\ writer_input = <<>>
    /\ child_alive = TRUE
    /\ child_stdin = <<>>
    /\ sigints = 0
    /\ reader_pc = "check"
    /\ rx_output = <<>>
    /\ agg_pc = "check"
    /\ agg_data = <<>>
    /\ buffer = <<>>
    /\ forwarded = <<>>
    /\ drains = <<>>
    /\ eot_submitted = FALSE
    /\ writes = 0
    /\ write_result = "none"

\* a send whose failure is swallowed
send_NoError(queue, disconnected, chunk) ==
    IF disconnected THEN [result |-> "Ok", queue |-> queue]
    ELSE [result |-> "Ok", queue |-> Append(queue, chunk)]

\* self.tx.send(filtered_input).map_err(..): the send fails, and the chunk is
\* dropped, when the writer thread has returned and dropped rx_input
send(queue, disconnected, chunk) ==
    IF disconnected THEN [result |-> "Err", queue |-> queue]
    ELSE [result |-> "Ok", queue |-> Append(queue, chunk)]

\* Terminal::write_input: one send of the filtered chunk, its result returned
write_input(input) ==
    /\ tx_open
    /\ LET r == send(rx_input, writer_pc = "done", filter_input(input)) IN
       /\ rx_input' = r.queue
       /\ write_result' = r.result
    /\ eot_submitted' = (eot_submitted \/ input = <<4>>)
    /\ writes' = writes + 1
    /\ UNCHANGED <<should_exit, tx_open, writer_pc, writer_input, child_alive,
                   child_stdin, sigints, reader_pc, rx_output, agg_pc, agg_data,
                   buffer, forwarded, drains>>

\* get_output that forgets buffer.clear()
get_output_result_NoClear(buf) == [output |-> buf, buffer |-> buf]

\* Terminal::get_output: copy-out and clear under the buffer lock
get_output_result(buf) == [output |-> buf, buffer |-> <<>>]

get_output ==
    /\ tx_open
    /\ LET r == get_output_result(buffer) IN
       /\ buffer' = r.buffer
       /\ drains' = IF r.output = <<>> THEN drains ELSE Append(drains, r.output)
    /\ UNCHANGED <<should_exit, tx_open, rx_input, writer_pc, writer_input, child_alive,
                   child_stdin, sigints, reader_pc, rx_output, agg_pc, agg_data,
                   forwarded, eot_submitted, writes, write_result>>

\* impl Drop for Terminal: kill and wait for the child, then drop the fields
drop ==
    /\ tx_open
    /\ child_alive' = FALSE
    /\ tx_open' = FALSE
    /\ UNCHANGED <<should_exit, rx_input, writer_pc, writer_input, child_stdin, sigints,
                   reader_pc, rx_output, agg_pc, agg_data, buffer, forwarded, drains,
                   eot_submitted, writes, write_result>>

\* the child exits on its own
child_exit ==
    /\ child_alive
    /\ child_alive' = FALSE
    /\ UNCHANGED <<should_exit, tx_open, rx_input, writer_pc, writer_input,
                   child_stdin, sigints, reader_pc, rx_output, agg_pc, agg_data, buffer,
                   forwarded, drains, eot_submitted, writes, write_result>>

(* Writer thread, handle_input *)

\* rx_input.iter().next(): blocks until a chunk is queued or the sender is dropped
writer_recv ==
    /\ writer_pc = "recv"
    /\ rx_input # <<>> \/ ~tx_open
    /\ IF rx_input # <<>>
       THEN /\ writer_input' = Head(rx_input)
            /\ rx_input' = Tail(rx_input)
            /\ writer_pc' = "check"
       ELSE /\ writer_pc' = "done"
            /\ UNCHANGED <<writer_input, rx_input>>
    /\ UNCHANGED <<should_exit, tx_open, child_alive, child_stdin, sigints, reader_pc,
                   rx_output, agg_pc, agg_data, buffer, forwarded, drains,
                   eot_submitted, writes, write_result>>

\* if *should_exit.lock().unwrap() { break; }
writer_check ==
    /\ writer_pc = "check"
    /\ writer_pc' = IF should_exit THEN "done" ELSE "dispatch"
    /\ UNCHANGED <<should_exit, tx_open, rx_input, writer_input, child_alive,
                   child_stdin, sigints, reader_pc, rx_output, agg_pc, agg_data, buffer,
                   forwarded, drains, eot_submitted, writes, write_result>>

\* the bytes of a writer that passes every chunk on as it is
written_bytes_Verbatim(input) == input

\* the bytes the writer hands to stdin.write_all for a chunk
written_bytes(input) ==
    IF input = <<8>> \/ input = <<127>> THEN <<8>> ELSE input

\* handle_input that also writes the interrupt byte to the child
writer_dispatch_SigintWrites ==
    /\ writer_pc = "dispatch"
    /\ IF writer_input = <<3>>
       THEN /\ sigints' = IF child_alive THEN sigints + 1 ELSE sigints
            /\ child_stdin' = IF child_alive THEN child_stdin \o <<3>> ELSE child_stdin
            /\ writer_pc' = "recv"
            /\ UNCHANGED should_exit
       ELSE IF writer_input = <<4>>
       THEN /\ should_exit' = TRUE
            /\ writer_pc' = "done"
            /\ UNCHANGED <<sigints, child_stdin>>
       ELSE /\ child_stdin' = IF child_alive
                              THEN child_stdin \o written_bytes(writer_input)
                              ELSE child_stdin
            /\ writer_pc' = "recv"
            /\ UNCHANGED <<should_exit, sigints>>
    /\ UNCHANGED <<tx_open, rx_input, writer_input, child_alive, reader_pc, rx_output,
                   agg_pc, agg_data, buffer, forwarded, drains, eot_submitted, writes, write_result>>

\* the if / else if chain of handle_input; a write to a dead child fails and
\* the result is dropped
writer_dispatch ==
    /\ writer_pc = "dispatch"
    /\ IF writer_input = <<3>>
       THEN /\ sigints' = IF child_alive THEN sigints + 1 ELSE sigints
            /\ writer_pc' = "recv"
            /\ UNCHANGED <<should_exit, child_stdin>>
       ELSE IF writer_input = <<4>>
       THEN /\ should_exit' = TRUE
            /\ writer_pc' = "done"
            /\ UNCHANGED <<sigints, child_stdin>>
       ELSE /\ child_stdin' = IF child_alive
                              THEN child_stdin \o written_bytes(writer_input)
                              ELSE child_stdin
            /\ writer_pc' = "recv"
            /\ UNCHANGED <<should_exit, sigints>>
    /\ UNCHANGED <<tx_open, rx_input, writer_input, child_alive, reader_pc, rx_output,
                   agg_pc, agg_data, buffer, forwarded, drains, eot_submitted, writes, write_result>>

(* Reader thread, handle_output *)

\* while !*should_exit.lock().unwrap()
reader_check ==
    /\ reader_pc = "check"
    /\ reader_pc' = IF should_exit THEN "done" ELSE "read"
    /\ UNCHANGED <<should_exit, tx_open, rx_input, writer_pc, writer_input, child_alive,
                   child_stdin, sigints, rx_output, agg_pc, agg_data, buffer, forwarded,
                   drains, eot_submitted, writes, write_result>>

\* read_until(b'\n') returns a chunk of the running child, which is sent on
\* tx_output
reader_read(chunk) ==
    /\ reader_pc = "read"
    /\ child_alive
    /\ rx_output' = Append(rx_output, chunk)
    /\ forwarded' = Append(forwarded, chunk)
    /\ reader_pc' = "check"
    /\ UNCHANGED <<should_exit, tx_open, rx_input, writer_pc, writer_input, child_alive,
                   child_stdin, sigints, agg_pc, agg_data, buffer, drains,
                   eot_submitted, writes, write_result>>

\* a reader that raises the exit flag when the child is gone
reader_eof_SetsExit ==
    /\ reader_pc = "read"
    /\ ~child_alive
    /\ reader_pc' = "done"
    /\ should_exit' = TRUE
    /\ UNCHANGED <<tx_open, rx_input, writer_pc, writer_input, child_alive,
                   child_stdin, sigints, rx_output, agg_pc, agg_data, buffer, forwarded,
                   drains, eot_submitted, writes, write_result>>

\* read_until returns Ok(0) or Err: the child is gone
reader_eof ==
    /\ reader_pc = "read"
    /\ ~child_alive
    /\ reader_pc' = "done"
    /\ UNCHANGED <<should_exit, tx_open, rx_input, writer_pc, writer_input, child_alive,
                   child_stdin, sigints, rx_output, agg_pc, agg_data, buffer, forwarded,
                   drains, eot_submitted, writes, write_result>>

(* Aggregator thread, the closure of start *)

\* while !*should_exit_clone.lock().unwrap()
agg_check ==
    /\ agg_pc = "check"
    /\ agg_pc' = IF should_exit THEN "done" ELSE "recv"
    /\ UNCHANGED <<should_exit, tx_open, rx_input, writer_pc, writer_input, child_alive,
                   child_stdin, sigints, reader_pc, rx_output, agg_data, buffer,
                   forwarded, drains, eot_submitted, writes, write_result>>

\* a receive that never learns that the reader dropped tx_output
agg_recv_NoDisconnect ==
    /\ agg_pc = "recv"
    /\ rx_output # <<>>
    /\ agg_data' = Head(rx_output)
    /\ rx_output' = Tail(rx_output)
    /\ agg_pc' = "append"
    /\ UNCHANGED <<should_exit, tx_open, rx_input, writer_pc, writer_input, child_alive,
                   child_stdin, sigints, reader_pc, buffer, forwarded, drains,
                   eot_submitted, writes, write_result>>

\* rx_output.lock().unwrap().recv(): blocks until a chunk is queued or the
\* reader has dropped tx_output
agg_recv ==
    /\ agg_pc = "recv"
    /\ rx_output # <<>> \/ reader_pc = "done"
    /\ IF rx_output # <<>>
       THEN /\ agg_data' = Head(rx_output)
            /\ rx_output' = Tail(rx_output)
            /\ agg_pc' = "append"
       ELSE /\ agg_pc' = "done"
            /\ UNCHANGED <<agg_data, rx_output>>
    /\ UNCHANGED <<should_exit, tx_open, rx_input, writer_pc, writer_input, child_alive,
                   child_stdin, sigints, reader_pc, buffer, forwarded, drains,
                   eot_submitted, writes, write_result>>

\* an append that overwrites what the buffer holds
extend_from_slice_Overwrite(buf, data) == data

\* buffer.extend_from_slice(&data)
extend_from_slice(buf, data) == buf \o data

\* the append under the buffer lock
agg_append ==
    /\ agg_pc = "append"
    /\ buffer' = extend_from_slice(buffer, agg_data)
    /\ agg_pc' = "check"
    /\ UNCHANGED <<should_exit, tx_open, rx_input, writer_pc, writer_input, child_alive,
                   child_stdin, sigints, reader_pc, rx_output, agg_data, forwarded,
                   drains, eot_submitted, writes, write_result>>

(* Lock guards.  A MutexGuard that is a temporary of one statement is taken
   and released inside one step of the thread; the guard of
   rx_output.lock() in the aggregator is a temporary of the `if let`
   scrutinee, so it lives through recv() and through the body. *)

\* handle_input: shell.lock() and should_exit.lock() guards end with their statement
writer_locks == {}

\* handle_output: shell.lock() and should_exit.lock() guards end with their statement
reader_locks == {}

\* the closure of start: at recv and in the body it holds the rx_output guard
agg_locks == IF agg_pc \in {"recv", "append"} THEN {"rx_output"} ELSE {}

\* the thread waits inside rx_input.iter().next()
writer_blocked == writer_pc = "recv" /\ rx_input = <<>> /\ tx_open

\* the thread waits inside read_until on the running child's output
reader_blocked == reader_pc = "read" /\ child_alive

\* the thread waits inside recv() on an empty channel whose sender lives
agg_blocked == agg_pc = "recv" /\ rx_output = <<>> /\ reader_pc # "done"

----------------------------------------------------------------------------
(* Inputs *)

Heights == 0..MaxHeight

InputTexts == {<<"a">>}

\* texts for the viewport specification: every line ending, a text without
\* final line ending, the empty text, both clear-screen sequences
OutputTexts ==
    { <<"a", LF>>, <<"b", CR, LF>>, <<"c">>, <<"a", LF, "b", LF>>,
      <<>>, <<"a", FF>>, <<"a", LF>> \o CLEAR_SEQ \o <<"b", LF>> }

\* texts for the specification with selections
FewOutputTexts == { <<"a", LF>>, <<"a", FF>> }

ScrollAmounts == 1..MaxScrollStep

ClickLines == 0..MaxClickLine
ClickCols == 0..MaxClickCol

----------------------------------------------------------------------------
(* Specifications of the display state *)

\* TerminalState::new at start-up
DisplayInit ==
    /\ visible_lines = WindowHeight \div LineHeight
    /\ history = <<>>
    /\ current_input = <<>>
    /\ cursor_position = 0
    /\ offset = 0
    /\ selection = None
    /\ command_history = <<>>
    /\ command_index = None
    /\ panicked = FALSE
    /\ lastOp = Op("new")

\* main: the display state and the session, both just constructed
Init == DisplayInit /\ SessionInit

Resize == \E h \in Heights : new(h) /\ UNCHANGED sessionVars
StartSelection ==
    \E l \in ClickLines, c \in ClickCols : start_selection(l, c) /\ UNCHANGED sessionVars
UpdateSelection ==
    \E l \in ClickLines, c \in ClickCols : update_selection(l, c) /\ UNCHANGED sessionVars
KeyUp == handle_key_up /\ UNCHANGED sessionVars
KeyDown == handle_key_down /\ UNCHANGED sessionVars
AddInput ==
    \E t \in InputTexts :
        /\ Len(current_input) + Len(t) <= MaxInputLen
        /\ add_input(t)
        /\ UNCHANGED sessionVars
Backspace == handle_backspace /\ UNCHANGED sessionVars
CommitInput == commit_input /\ UNCHANGED sessionVars
Clear == clear /\ UNCHANGED sessionVars
AddOutput == \E t \in OutputTexts : add_output(t) /\ UNCHANGED sessionVars
AddFewOutput == \E t \in FewOutputTexts : add_output(t) /\ UNCHANGED sessionVars
ScrollUp == \E n \in ScrollAmounts : scroll_up(n) /\ UNCHANGED sessionVars
ScrollDown == \E n \in ScrollAmounts : scroll_down(n) /\ UNCHANGED sessionVars

\* every TerminalState operation the event loop calls
Next ==
    \/ Resize
    \/ StartSelection
    \/ UpdateSelection
    \/ KeyUp
    \/ KeyDown
    \/ AddInput
    \/ Backspace
    \/ CommitInput
    \/ Clear
    \/ AddFewOutput
    \/ ScrollUp
    \/ ScrollDown

Spec == Init /\ [][Next]_vars

\* the operations that write scrollback, viewport or input line, with the
\* larger set of output texts; start_selection and update_selection, which
\* write the selection only, are left to Spec
ViewNext ==
    \/ Resize
    \/ KeyUp
    \/ KeyDown
    \/ AddInput
    \/ Backspace
    \/ CommitInput
    \/ Clear
    \/ AddOutput
    \/ ScrollUp
    \/ ScrollDown

ViewSpec == Init /\ [][ViewNext]_vars

\* the mouse on a changing view: selection calls between output, typing,
\* scrolling and resizing
SelectNext ==
    \/ Resize
    \/ StartSelection
    \/ UpdateSelection
    \/ AddInput
    \/ AddFewOutput
    \/ ScrollUp
    \/ ScrollDown

SelectSpec == Init /\ [][SelectNext]_vars

\* The input line and the command history: typing up to NavInputLen
\* characters, so that history entries differ and typing while browsing
\* happens, with a selection on the visible lines.
AddNavInput ==
    \E t \in InputTexts :
        /\ Len(current_input) + Len(t) <= NavInputLen
        /\ add_input(t)
        /\ UNCHANGED sessionVars

NavNext ==
    \/ Resize
    \/ AddNavInput
    \/ Backspace
    \/ CommitInput
    \/ KeyUp
    \/ KeyDown
    \/ StartSelection

NavSpec == Init /\ [][NavNext]_vars

\* committing input lines of up to NavInputLen characters while the view is
\* scrolled, resized and fed output
EchoNext ==
    \/ Resize
    \/ AddNavInput
    \/ Backspace
    \/ CommitInput
    \/ AddFewOutput
    \/ ScrollUp
    \/ ScrollDown

EchoSpec == Init /\ [][EchoNext]_vars

----------------------------------------------------------------------------
(* Specifications of the session *)

\* chunks the event loop hands to write_input: EOT, interrupt, Return, a
\* typed character, backspace, delete
InputChunks == { <<4>>, <<3>>, <<10>>, <<97>>, <<8>>, <<127>> }

\* chunks read_until returns: lines of the child's output, terminator included
OutputChunks == { <<"x", LF>>, <<"y", LF>> }

WriteInput ==
    \E c \in InputChunks :
        /\ writes < MaxWrites
        /\ write_input(c)
        /\ UNCHANGED displayVars
GetOutput == get_output /\ UNCHANGED displayVars
Drop == drop /\ UNCHANGED displayVars
ChildExit == child_exit /\ UNCHANGED displayVars
WriterRecv == writer_recv /\ UNCHANGED displayVars
WriterCheck == writer_check /\ UNCHANGED displayVars
WriterDispatch == writer_dispatch /\ UNCHANGED displayVars
ReaderCheck == reader_check /\ UNCHANGED displayVars
ReaderRead ==
    \E c \in OutputChunks :
        /\ Len(forwarded) < MaxChunks
        /\ reader_read(c)
        /\ UNCHANGED displayVars
ReaderEof == reader_eof /\ UNCHANGED displayVars
AggCheck == agg_check /\ UNCHANGED displayVars
AggRecv == agg_recv /\ UNCHANGED displayVars
AggAppend == agg_append /\ UNCHANGED displayVars

Writer == WriterRecv \/ WriterCheck \/ WriterDispatch
Reader == ReaderCheck \/ ReaderRead \/ ReaderEof
Aggregator == AggCheck \/ AggRecv \/ AggAppend

\* the input side: the event loop's write_input and teardown, the writer thread
InputNext ==
    \/ WriteInput
    \/ Drop
    \/ ChildExit
    \/ WriterRecv
    \/ WriterCheck
    \/ WriterDispatch

\* the operating system runs the writer thread whenever it can take a step
FairInputSpec == Init /\ [][InputNext]_vars /\ WF_vars(Writer)

\* the whole session: event loop, writer, reader and aggregator
SessionNext ==
    \/ WriteInput
    \/ GetOutput
    \/ Drop
    \/ ChildExit
    \/ WriterRecv
    \/ WriterCheck
    \/ WriterDispatch
    \/ ReaderCheck
    \/ ReaderRead
    \/ ReaderEof
    \/ AggCheck
    \/ AggRecv
    \/ AggAppend

SessionSpec == Init /\ [][SessionNext]_vars

\* write_input on chunks of several bytes: printable bytes, whitespace,
\* backspace, delete, control bytes, a vertical tab and a non-ASCII byte
ByteChunks == { <<97, 4, 10>>, <<200, 8, 127, 32>>, <<3>>, <<27, 11, 9>> }

WriteBytes ==
    \E c \in ByteChunks :
        /\ writes < MaxWrites
        /\ write_input(c)
        /\ UNCHANGED displayVars

FilterNext ==
    \/ WriteBytes
    \/ WriterRecv
    \/ WriterCheck
    \/ WriterDispatch
    \/ Drop

FilterSpec == Init /\ [][FilterNext]_vars

\* The writer and reader threads taken by themselves: handle_input runs on
\* an input channel that holds any chunks, whatever their sender queued.
RawChunks == { <<3>>, <<4>>, <<8>>, <<127>>, <<97, 10>> }

RECURSIVE SeqsUpTo(_, _)
SeqsUpTo(S, n) ==
    IF n = 0 THEN {<<>>}
    ELSE LET shorter == SeqsUpTo(S, n - 1) IN
         shorter \cup {Append(q, c) : q \in shorter, c \in S}

ThreadInit ==
    /\ DisplayInit
    /\ should_exit = FALSE
    /\ tx_open = TRUE
    /\ rx_input \in SeqsUpTo(RawChunks, MaxQueued)
    /\ writer_pc = "recv"
    /\ writer_input = <<>>
    /\ child_alive = TRUE
    /\ child_stdin = <<>>
    /\ sigints = 0
    /\ reader_pc = "check"
    /\ rx_output = <<>>
    /\ agg_pc = "check"
    /\ agg_data = <<>>
    /\ buffer = <<>>
    /\ forwarded = <<>>
    /\ drains = <<>>
    /\ eot_submitted = FALSE
    /\ writes = 0
    /\ write_result = "none"

ThreadNext ==
    \/ WriterRecv
    \/ WriterCheck
    \/ WriterDispatch
    \/ ReaderCheck
    \/ ReaderRead
    \/ ReaderEof
    \/ ChildExit
    \/ Drop

ThreadSpec == ThreadInit /\ [][ThreadNext]_vars

\* the output side while the exit flag stays unset: reader, aggregator and
\* the event loop's poll
DeliveryNext ==
    \/ GetOutput
    \/ ChildExit
    \/ ReaderCheck
    \/ ReaderRead
    \/ ReaderEof
    \/ AggCheck
    \/ AggRecv
    \/ AggAppend

\* the aggregator thread runs whenever it can take a step, and the event loop
\* polls get_output once per frame
DeliverySpec ==
    /\ Init
    /\ [][DeliveryNext]_vars
    /\ WF_vars(Aggregator)
    /\ WF_vars(GetOutput)

\* str::as_bytes on the characters the model types
byte_of(c) == CASE c = "a" -> 97 [] c = LF -> 10 [] c = CR -> 13 [] c = FF -> 12
                [] c = ESC -> 27 [] OTHER -> 63
as_bytes(text) == [i \in 1..Len(text) |-> byte_of(text[i])]

\* Event::TextInput and the paste key: the text goes to the input line and
\* to the child
TextInput ==
    \E t \in InputTexts :
        /\ Len(current_input) + Len(t) <= NavInputLen
        /\ Len(rx_input) < MaxQueued
        /\ add_input(t)
        /\ write_input(as_bytes(t))

\* Keycode::Return: commit the input line, send a newline to the child
KeyReturn ==
    /\ Len(rx_input) < MaxQueued
    /\ commit_input
    /\ write_input(<<10>>)

\* the keys that edit the input line, as handle_keyboard_input and the event
\* loop handle them; Backspace, Up and Down send nothing to the child
KeyNext ==
    \/ TextInput
    \/ KeyReturn
    \/ Backspace
    \/ KeyUp
    \/ KeyDown

KeySpec == Init /\ [][KeyNext]_vars

\* write_input against a writer thread that may have returned: the input
\* channel holds any chunks, and the event loop keeps calling write_input
ChannelNext ==
    \/ WriteInput
    \/ WriterRecv
    \/ WriterCheck
    \/ WriterDispatch
    \/ ChildExit
    \/ Drop

ChannelSpec == ThreadInit /\ [][ChannelNext]_vars

\* teardown with the three threads anywhere in their loops: the input channel
\* holds any chunks, so the exit flag may or may not get set before the drop
TeardownNext ==
    \/ Drop
    \/ ChildExit
    \/ WriterRecv
    \/ WriterCheck
    \/ WriterDispatch
    \/ ReaderCheck
    \/ ReaderRead
    \/ ReaderEof
    \/ AggCheck
    \/ AggRecv
    \/ AggAppend

\* the queued chunks that matter at teardown: end-of-transmission, which sets
\* the exit flag and stops the writer, and a line of text
TeardownChunks == { <<4>>, <<97, 10>> }

TeardownInit ==
    /\ ThreadInit
    /\ \A i \in 1..Len(rx_input) : rx_input[i] \in TeardownChunks

\* the operating system runs each spawned thread whenever it can take a step
TeardownSpec ==
    /\ TeardownInit
    /\ [][TeardownNext]_vars
    /\ WF_vars(Writer)
    /\ WF_vars(Reader)
    /\ WF_vars(Aggregator)

----------------------------------------------------------------------------
(* Properties *)

IsPrefix(s, t) == Len(s) <= Len(t) /\ SubSeq(t, 1, Len(s)) = s

\* C1: once an end-of-transmission byte (0x04) has been handed to
\* write_input, should_exit() eventually returns true, the writer thread
\* being scheduled fairly.
C1_EotLeadsToExit == eot_submitted ~> should_exit

\* C2: the bytes returned by successive get_output() calls, concatenated, are
\* a prefix of the chunks the reader forwarded, concatenated in the order it
\* forwarded them: nothing is reordered or duplicated.
C2_DrainsArePrefix == IsPrefix(concat(drains), concat(forwarded))

\* two drains returned bytes, and together they returned both forwarded chunks
C2_Witness ==
    /\ Len(drains) = 2
    /\ Len(forwarded) = 2
    /\ forwarded[1] # forwarded[2]
    /\ concat(drains) = concat(forwarded)

\* the texts of the scrollback lines of a visible-content list, the input
\* line left out
scrollback_texts(content) ==
    LET rows == SelectSeq(content, LAMBDA e : e.color = TEXT_COLOR) IN
    [i \in 1..Len(rows) |-> rows[i].text]

\* the newest MAX_HISTORY_LINES lines of a sequence
KeepNewest(s) ==
    IF Len(s) <= MAX_HISTORY_LINES THEN s
    ELSE SubSeq(s, Len(s) - MAX_HISTORY_LINES + 1, Len(s))

\* for each text of OutputTexts: the number of lines add_output appends,
\* whether it holds a clear-screen sequence, and its lines
OutputLineCount == [t \in OutputTexts |-> appended_lines(t)]
OutputClears == [t \in OutputTexts |-> is_clear_screen(t)]
OutputLines == [t \in OutputTexts |-> lines(t)]

\* C3: whatever operations are called, the scrollback never holds more than
\* MAX_HISTORY_LINES lines; add_output and commit_input leave the old lines
\* followed by the new ones in insertion order, evicting from the oldest end;
\* every other operation leaves the scrollback as it is or empties it.
C3_ScrollbackCapped ==
    [][ /\ Len(history') <= MAX_HISTORY_LINES
        /\ lastOp'.name = "add_output" =>
              \A t \in OutputTexts :
                 \/ history' = IF OutputClears[t] THEN <<>>
                                ELSE KeepNewest(history \o OutputLines[t])
                 \/ ~(lastOp'.n = OutputLineCount[t] /\ add_output(t))
        /\ lastOp'.name = "commit_input" =>
              (commit_input =>
                  history' = KeepNewest(Append(history, Prompt \o current_input)))
        /\ lastOp'.name \notin {"add_output", "commit_input"} => history' \in {history, <<>>}
      ]_vars

\* add_output appended at least one line to a full scrollback
C3_Witness ==
    /\ lastOp.name = "add_output"
    /\ lastOp.orig = MAX_HISTORY_LINES
    /\ lastOp.n >= 1
    /\ Len(history) = MAX_HISTORY_LINES

\* C4: in every reachable state
\* 0 <= offset <= max(0, scrollbackLen - (visibleLines - 1)).
C4_OffsetInRange ==
    /\ 0 <= offset
    /\ offset <= Max(0, Len(history) - (visible_lines - 1))

\* scrolled back as far as the bound allows, after a scroll_up
C4_Witness ==
    /\ lastOp.name = "scroll_up"
    /\ offset > 0
    /\ offset = Max(0, Len(history) - (visible_lines - 1))

C5_Scenario == history = <<<<"a">>, <<"b">>, <<"c">>>> /\ visible_lines = 2

\* C5, as claimed: with scrollback a, b, c, visibleLines = 2 and offset 0 the
\* visible content without the input line is b, c; after scroll_up(1) the
\* offset is 1 and the visible content is a, b.
C5_Original ==
    /\ (C5_Scenario /\ offset = 0) =>
          scrollback_texts(get_visible_content) = <<<<"b">>, <<"c">>>>
    /\ (C5_Scenario /\ lastOp.name = "scroll_up" /\ lastOp.n = 1 /\ lastOp.orig = 0) =>
          /\ offset = 1
          /\ scrollback_texts(get_visible_content) = <<<<"a">>, <<"b">>>>

\* C5, amended: one of the two rows is kept for the input line, so the visible
\* content without the input line is c; after scroll_up(1) the offset is 1 and
\* the visible content is b.
C5_Amended ==
    /\ (C5_Scenario /\ offset = 0) =>
          /\ scrollback_texts(get_visible_content) = <<<<"c">>>>
          /\ Len(get_visible_content) = 2
    /\ (C5_Scenario /\ lastOp.name = "scroll_up" /\ lastOp.n = 1 /\ lastOp.orig = 0) =>
          /\ offset = 1
          /\ get_visible_content = <<[text |-> <<"b">>, color |-> TEXT_COLOR]>>

\* the scenario's state after scroll_up(1)
C5_Witness ==
    /\ C5_Scenario
    /\ lastOp.name = "scroll_up" /\ lastOp.n = 1 /\ lastOp.orig = 0
    /\ offset = 1

\* the bound scroll_up clamps to
ClampBound == Max(0, Len(history) - Max(0, visible_lines - 1))

C7_ViewDoesNotMove ==
    [][ lastOp'.name = "add_output" =>
          \A t \in OutputTexts :
             (add_output(t) /\ ~is_clear_screen(t)) =>
                /\ offset > 0 =>
                     scrollback_texts(get_visible_content')
                        = scrollback_texts(get_visible_content)
                /\ offset = 0 => offset' = 0
      ]_vars

\* C8, as claimed: after scroll_up, scroll_down, add_input, handle_backspace
\* or commit_input no selection is active and navigation is Live.
C8_Original ==
    lastOp.name \in {"scroll_up", "scroll_down", "add_input", "handle_backspace",
                     "commit_input"} =>
        selection = None /\ command_index = None

\* C8, amended: after scroll_up or scroll_down no selection is active; after
\* add_input or handle_backspace navigation is Live; after commit_input no
\* selection is active and navigation is Live.
C8_Amended ==
    /\ lastOp.name \in {"scroll_up", "scroll_down"} => selection = None
    /\ lastOp.name \in {"add_input", "handle_backspace"} => command_index = None
    /\ lastOp.name = "commit_input" => selection = None /\ command_index = None

\* an edit made while a selection is active
C8_Witness ==
    /\ lastOp.name = "add_input"
    /\ selection # None
    /\ command_index = None

\* C9: get_visible_content() never returns more than visibleLines entries,
\* and its last entry is the live input line exactly when offset = 0.
C9_VisibleContentFits ==
    LET content == get_visible_content
        input_line == [text |-> Prompt \o current_input, color |-> INPUT_COLOR]
    IN /\ Len(content) <= visible_lines
       /\ (content # <<>> /\ content[Len(content)] = input_line) <=> offset = 0

\* the substring one visible line contributes to the selected text
selected_part(content, i, start_pos, end_pos) ==
    LET line == content[i + 1].text
        from == IF i = start_pos.line THEN Min(start_pos.column, Len(line)) ELSE 0
        to == IF i = end_pos.line THEN Min(end_pos.column, Len(line)) ELSE Len(line)
    IN SubSeq(line, from + 1, to)

\* the parts of visible lines first..last, one line break between neighbours
RECURSIVE joined_parts(_, _, _, _, _)
joined_parts(content, first, last, start_pos, end_pos) ==
    IF first = last THEN selected_part(content, first, start_pos, end_pos)
    ELSE selected_part(content, first, start_pos, end_pos) \o <<LF>>
         \o joined_parts(content, first + 1, last, start_pos, end_pos)

\* C10: get_selected_text() is the substrings of the visible lines start.line
\* to end.line of the normalized selection, joined by one line break between
\* consecutive lines, so it holds exactly end.line - start.line line breaks,
\* also when a line contributes an empty substring.
C10_SelectedTextJoined ==
    selection # None =>
        LET n == normalize(selection[1])
            content == get_visible_content
            text == get_selected_text
        IN n[2].line < Len(content) =>
              /\ text = joined_parts(content, n[1].line, n[2].line, n[1], n[2])
              /\ Cardinality({i \in 1..Len(text) : text[i] = LF}) = n[2].line - n[1].line

\* (line, column) order of two positions
PositionLeq(a, b) == a.line < b.line \/ (a.line = b.line /\ a.column <= b.column)

\* C11: normalize() returns the two endpoints as (a, b) with a <= b in
\* (line, column) order whichever way the drag went, and for a selection on
\* one visible line get_selected_text() is the substring [a.column, b.column)
\* of that line (a column beyond the line counts as the line length).
C11_NormalizedSubstring ==
    selection # None =>
        LET s == selection[1]
            n == normalize(s)
            content == get_visible_content
        IN /\ PositionLeq(n[1], n[2])
           /\ {n[1], n[2]} = {s.start, s.end}
           /\ (n[1].line = n[2].line /\ n[1].line < Len(content)) =>
                 LET line == content[n[1].line + 1].text IN
                 get_selected_text = SubSeq(line, n[1].column + 1, Min(n[2].column, Len(line)))

\* a backward drag on one line that selects some text
C11_Witness ==
    /\ selection # None
    /\ selection[1].start.line = selection[1].end.line
    /\ selection[1].start.column > selection[1].end.column
    /\ get_selected_text # <<>>

\* C12: handle_key_up() from Live loads the newest entry, then each older
\* one, and stays on the oldest; navigation never changes a stored entry;
\* handle_key_down() at the newest entry clears the input and returns to
\* Live, and handle_key_down() in Live changes nothing.
C12_HistoryNavigation ==
    [][ /\ lastOp'.name = "handle_key_up" =>
             /\ command_history' = command_history
             /\ command_history # <<>> =>
                  IF command_index = None
                  THEN /\ command_index' = Some(Len(command_history) - 1)
                       /\ current_input' = command_history[Len(command_history)]
                  ELSE IF command_index[1] > 0
                  THEN /\ command_index' = Some(command_index[1] - 1)
                       /\ current_input' = command_history[command_index[1]]
                  ELSE /\ command_index' = Some(0)
                       /\ current_input' = command_history[1]
        /\ lastOp'.name = "handle_key_down" =>
             /\ command_history' = command_history
             /\ command_index = None =>
                  UNCHANGED <<history, current_input, cursor_position, offset,
                              visible_lines, selection, command_index, panicked>>
             /\ (command_index # None /\ command_index[1] = Len(command_history) - 1) =>
                  (current_input' = <<>> /\ command_index' = None)
      ]_vars

\* handle_key_up has walked from the newest entry to a different, oldest one
C12_Witness ==
    /\ lastOp.name = "handle_key_up"
    /\ Len(command_history) = 2
    /\ command_history[1] # command_history[2]
    /\ command_index = Some(0)
    /\ current_input = command_history[1]

\* C13: while Browsing(index) the command history is non-empty and
\* 0 <= index < its length.
C13_BrowseIndexInRange ==
    command_index # None =>
        /\ command_history # <<>>
        /\ command_index[1] >= 0
        /\ command_index[1] < Len(command_history)

\* browsing the newest entry of a full command history
C13_Witness ==
    /\ Len(command_history) = MAX_COMMAND_HISTORY
    /\ command_index = Some(MAX_COMMAND_HISTORY - 1)

\* C14: every add_input and every handle_backspace call, also one that
\* removes nothing, leaves the navigation state Live.
C14_EditLeavesLive ==
    [][ lastOp'.name \in {"add_input", "handle_backspace"} => command_index' = None ]_vars

\* add_input was called while browsing the command history
C14_Witness ==
    /\ lastOp.name = "add_input"
    /\ lastOp.rt
    /\ command_index = None

\* C15: commit_input() leaves the command history unchanged for an empty
\* input; for a non-empty input it appends that input as the newest entry
\* and evicts the oldest entry when the length would exceed
\* MAX_COMMAND_HISTORY; afterwards the input is empty, the cursor 0, the
\* selection cleared and the navigation state Live.
C15_CommitInput ==
    [][ lastOp'.name = "commit_input" =>
          /\ current_input = <<>> => command_history' = command_history
          /\ current_input # <<>> =>
               command_history' =
                   Append(IF Len(command_history) >= MAX_COMMAND_HISTORY
                          THEN Tail(command_history) ELSE command_history,
                          current_input)
          /\ Len(command_history') <= MAX_COMMAND_HISTORY
          /\ current_input' = <<>>
          /\ cursor_position' = 0
          /\ selection' = None
          /\ command_index' = None
      ]_vars

\* three non-empty inputs were committed in a row, the first of them evicted
C15_Witness ==
    /\ lastOp.name = "commit_input"
    /\ Len(history) = 3
    /\ \A i \in 1..3 : history[i] # Prompt
    /\ history[1] # history[2]
    /\ command_history = <<SubSeq(history[2], Len(Prompt) + 1, Len(history[2])),
                           SubSeq(history[3], Len(Prompt) + 1, Len(history[3]))>>

\* the text holds a form feed or the sequence ESC [ H ESC [ 2 J
HasClearSequence(t) ==
    \/ \E i \in 1..Len(t) : t[i] = FF
    \/ \E i \in 1..(Len(t) - 6) :
          SubSeq(t, i, i + 6) = <<ESC, "[", "H", ESC, "[", "2", "J">>

\* C16: add_output(text) with a clear-screen sequence in the text leaves
\* the scrollback empty and the offset 0 whatever the state before, so no
\* line of the text is appended.
C16_ClearScreenOutput ==
    [][ lastOp'.name = "add_output" =>
          \A t \in OutputTexts :
              (HasClearSequence(t) /\ add_output(t)) => (history' = <<>> /\ offset' = 0)
      ]_vars

\* add_output has emptied a scrollback that held lines
C16_Witness ==
    /\ lastOp.name = "add_output"
    /\ lastOp.orig > 0
    /\ lastOp.n = 0
    /\ history = <<>>
    /\ offset = 0

\* a byte that is printable (0x20 to 0x7E), whitespace (space, tab, line
\* feed, form feed, carriage return) or the backspace 0x08
KeptByte(c) == (c >= 32 /\ c <= 126) \/ c \in {9, 10, 12, 13, 32} \/ c = 8

RECURSIVE KeptBytes(_)
KeptBytes(s) ==
    IF s = <<>> THEN <<>>
    ELSE (IF KeptByte(Head(s)) THEN <<Head(s)>> ELSE <<>>) \o KeptBytes(Tail(s))

\* C17: the chunk write_input(bytes) queues for the writer thread is the
\* subsequence of the bytes that are printable, whitespace or 0x08, in their
\* order; every other byte is removed.  Nothing is queued once the writer
\* thread has gone.
C17_QueuedChunkFiltered ==
    [][ \A c \in ByteChunks :
          write_input(c) =>
              rx_input' = IF writer_pc = "done" THEN rx_input
                          ELSE Append(rx_input, KeptBytes(c))
      ]_vars

\* the chunk 0xC8 0x08 0x7F 0x20 is queued as 0x08 0x20
C17_Witness == \E i \in 1..Len(rx_input) : rx_input[i] = <<8, 32>>

\* C18: on the chunk [0x03] the writer thread signals the child and writes
\* no byte to its input; on the chunk [0x04] it sets the exit flag and
\* stops, and forwards neither that chunk nor any chunk queued after it.
C18_ControlChunks ==
    [][ /\ (writer_pc = "dispatch" /\ writer_pc' # "dispatch" /\ writer_input = <<3>>) =>
             /\ child_alive => sigints' = sigints + 1
             /\ child_stdin' = child_stdin
             /\ should_exit' = should_exit
        /\ (writer_pc = "dispatch" /\ writer_pc' # "dispatch" /\ writer_input = <<4>>) =>
             /\ should_exit'
             /\ writer_pc' = "done"
             /\ child_stdin' = child_stdin
        /\ writer_pc = "done" =>
             /\ writer_pc' = "done"
             /\ child_stdin' = child_stdin
             /\ rx_input' = rx_input
             /\ sigints' = sigints
      ]_vars

\* the writer has signalled the child once, then stopped on [0x04] with a
\* chunk still queued, and has written nothing
C18_Witness ==
    /\ should_exit
    /\ writer_pc = "done"
    /\ sigints = 1
    /\ rx_input # <<>>
    /\ child_stdin = <<>>

C20_ExitFlag ==
    /\ ~should_exit
    /\ [][ /\ should_exit' # should_exit =>
                /\ ~should_exit
                /\ should_exit'
                /\ writer_pc = "dispatch"
                /\ writer_input = <<4>>
           /\ (reader_pc # "done" /\ reader_pc' = "done") => should_exit' = should_exit
         ]_vars

\* the child has exited on its own, the reader has ended, the flag is false
C20_Witness ==
    /\ tx_open
    /\ ~child_alive
    /\ reader_pc = "done"
    /\ ~should_exit

\* C21: a write_input call made after the writer thread has returned (the
\* channel is closed) returns Err, queues nothing and leaves the output
\* buffer, the exit flag and the child as they were; a call made while the
\* writer thread runs returns Ok and queues the filtered chunk.
C21_WriteInputResult ==
    [][ writes' # writes =>
          /\ writes' = writes + 1
          /\ IF writer_pc = "done"
             THEN /\ write_result' = "Err"
                  /\ rx_input' = rx_input
                  /\ <<buffer, should_exit, child_alive, child_stdin, sigints>>' =
                         <<buffer, should_exit, child_alive, child_stdin, sigints>>
             ELSE /\ write_result' = "Ok"
                  /\ \E c \in InputChunks :
                         rx_input' = Append(rx_input, filter_input(c)) ]_vars

C21_Witness ==
    /\ write_result = "Err"
    /\ writer_pc = "done"
    /\ should_exit
    /\ tx_open
    /\ writes = MaxWrites

\* C22: once the session is dropped (child killed and waited for, input
\* sender released) the writer, the reader and the aggregator thread each
\* eventually terminate, wherever they were and whatever the exit flag is.
C22_TeardownTerminates ==
    ~tx_open ~> (writer_pc = "done" /\ reader_pc = "done" /\ agg_pc = "done")

\* the drop finds the writer blocked with chunks still queued, the reader in
\* its read and the aggregator in its receive, with the exit flag unset
C22_Witness ==
    /\ ~tx_open
    /\ ~should_exit
    /\ writer_pc = "check"
    /\ rx_input # <<>>
    /\ reader_pc = "read"
    /\ agg_pc = "recv"
    /\ rx_output = <<>>

\* C23: no thread holds a lock while it waits inside a blocking call
\* (channel receive, stream read).
C23_NoLockWhileBlocked ==
    /\ writer_blocked => writer_locks = {}
    /\ reader_blocked => reader_locks = {}
    /\ agg_blocked => agg_locks = {}

\* C24: start_selection(line, col) with line outside the visible content
\* keeps the selection as it is, and otherwise sets a zero-width selection at
\* (line, min(col, length of that line)); update_selection(line, col)
\* without a selection changes nothing, and otherwise sets only the end to
\* (min(line, visibleLen - 1), min(col, length of that line)).  Neither call
\* changes anything else.
C24_SelectionCalls ==
    [][ lastOp'.name \in {"start_selection", "update_selection"} =>
          LET content == get_visible_content
              text_len(l) == Len(content[l + 1].text) IN
          /\ \A l \in ClickLines, c \in ClickCols :
               /\ start_selection(l, c) =>
                    IF l >= Len(content)
                    THEN selection' = selection
                    ELSE LET p == [line |-> l, column |-> Min(c, text_len(l))] IN
                         selection' = <<[start |-> p, end |-> p]>>
               /\ update_selection(l, c) =>
                    IF selection = <<>>
                    THEN selection' = <<>>
                    ELSE LET bl == Min(l, Len(content) - 1) IN
                         /\ ~panicked'
                         /\ selection'[1].start = selection[1].start
                         /\ selection'[1].end =
                                [line |-> bl, column |-> Min(c, text_len(bl))]
          /\ <<history, current_input, cursor_position, offset, visible_lines,
               command_history, command_index>>' =
             <<history, current_input, cursor_position, offset, visible_lines,
               command_history, command_index>> ]_vars

\* a drag has moved the end of a selection below and right of its start,
\* bounded by the last visible line and its length
C24_Witness ==
    /\ lastOp.name = "update_selection"
    /\ selection # None
    /\ selection[1].start = [line |-> 0, column |-> 0]
    /\ selection[1].end.line = Len(get_visible_content) - 1
    /\ selection[1].end.line > 0
    /\ selection[1].end.column = 1

\* the number of bytes in the first k elements of a sequence of chunks
bytes_upto(chunks, k) == Len(concat(SubSeq(chunks, 1, k)))

\* C25: with the exit flag unset and the event loop polling, every chunk the
\* reader forwards is returned whole by exactly one get_output call: the
\* drains, joined, are a prefix of the forwarded chunks, joined; every drain
\* ends where a forwarded chunk ends; and every forwarded chunk is
\* eventually covered by the drains.
C25_ChunksDelivered ==
    /\ [](IsPrefix(concat(drains), concat(forwarded)))
    /\ [](\A j \in 1..Len(drains) :
            \E k \in 1..Len(forwarded) :
                bytes_upto(drains, j) = bytes_upto(forwarded, k))
    /\ \A k \in 1..MaxChunks :
         (Len(forwarded) >= k) ~>
             (Len(forwarded) >= k /\ bytes_upto(forwarded, k) <= Len(concat(drains)))

\* two chunks were forwarded and came back in two drains, one chunk each
C25_Witness ==
    /\ ~should_exit
    /\ Len(forwarded) = MaxChunks
    /\ Len(drains) = MaxChunks
    /\ concat(drains) = concat(forwarded)

\* the bytes queued after the previous newline, given that the last byte
\* queued is the newline of this commit
since_previous_commit(bytes) ==
    LET body == SubSeq(bytes, 1, Len(bytes) - 1)
        breaks == {0} \cup {i \in 1..Len(body) : body[i] = 10}
        last_break == CHOOSE m \in breaks : \A i \in breaks : i <= m
    IN SubSeq(body, last_break + 1, Len(body))

\* C26: each time Return commits the input line, the bytes queued for the
\* child since the previous commit are the committed line and then a newline.
C26_InputMirrored ==
    [][ lastOp'.name = "commit_input" =>
          LET queued == concat(rx_input') IN
          /\ queued # <<>>
          /\ queued[Len(queued)] = 10
          /\ since_previous_commit(queued) = as_bytes(current_input) ]_vars

\* C27: every commit_input call, also one with an empty input, appends
\* exactly one line to the scrollback, the prompt followed by the input (the
\* oldest line leaves when the scrollback is full), and a viewport offset
\* greater than 0 stays as it is.
C27_CommitEchoes ==
    [][ lastOp'.name = "commit_input" =>
          LET kept == IF Len(history) >= MAX_HISTORY_LINES THEN Tail(history)
                      ELSE history IN
          /\ lastOp'.n = 1
          /\ Len(history') = Len(kept) + 1
          /\ SubSeq(history', 1, Len(kept)) = kept
          /\ history'[Len(history')] = Prompt \o current_input
          /\ offset > 0 => offset' = offset ]_vars

\* an empty input was committed while the view was scrolled back: the new
\* line is the prompt alone
C27_Witness ==
    /\ lastOp.name = "commit_input"
    /\ offset > 0
    /\ history # <<>>
    /\ history[Len(history)] = Prompt
    /\ command_history # <<>>

\* C28: in every state reached by add_input, handle_backspace, commit_input,
\* handle_key_up and handle_key_down over single-byte text the cursor is at
\* the end of the input line, so handle_backspace removes the last character
\* when there is one and never indexes outside the input.
C28_CursorAtEnd ==
    /\ [](cursor_position = Len(current_input) /\ ~panicked)
    /\ [][ lastOp'.name = "handle_backspace" =>
             current_input' = IF current_input = <<>> THEN <<>>
                              ELSE SubSeq(current_input, 1, Len(current_input) - 1) ]_vars

\* a backspace on a recalled two-character command left its first character
C28_Witness ==
    /\ lastOp.name = "handle_backspace"
    /\ lastOp.rt
    /\ Len(current_input) = NavInputLen - 1
    /\ cursor_position = NavInputLen - 1
    /\ \E i \in 1..Len(command_history) : Len(command_history[i]) = NavInputLen

\* the slice get_text_from_selection takes of visible line i, when it takes one
slice_bounds(content, i, start_pos, end_pos) ==
    LET line == content[i + 1].text IN
    [taken |-> (IF i = start_pos.line THEN start_pos.column ELSE 0) < Len(line),
     from |-> IF i = start_pos.line THEN start_pos.column ELSE 0,
     to |-> IF i = end_pos.line THEN Min(end_pos.column, Len(line)) ELSE Len(line),
     len |-> Len(line)]

\* C29: whenever a selection is active, both of its endpoints lie on lines of
\* the current visible content, no selection call has indexed a missing
\* line, and every slice get_selected_text takes has start <= end <= line
\* length, also when the visible lines changed under the selection.
C29_SelectionInView ==
    /\ ~panicked
    /\ selection # None =>
         LET content == get_visible_content
             n == normalize(selection[1]) IN
         /\ selection[1].start.line < Len(content)
         /\ selection[1].end.line < Len(content)
         /\ \A i \in n[1].line .. n[2].line :
              LET s == slice_bounds(content, i, n[1], n[2]) IN
              s.taken => (s.from <= s.to /\ s.to <= s.len)

\* output arrived while the view was scrolled back and moved a shorter line
\* under the selection: its end column now lies beyond the line, and the
\* selected text is empty
C29_Witness ==
    /\ lastOp.name = "add_output"
    /\ offset > 0
    /\ selection # None
    /\ LET content == get_visible_content
           n == normalize(selection[1]) IN
       /\ n[2].line < Len(content)
       /\ n[2].column > Len(content[n[2].line + 1].text)
    /\ get_selected_text = <<>>

====
